---- MODULE Spec2Model ----
(***************************************************************************)
(* Subscription / entitlement state machine of the LinkedIn_Slayer backend *)
(* (backend/subscription.py, backend/stripe_service.py and the             *)
(* subscription routes and Stripe webhook of backend/server.py).           *)
(*                                                                         *)
(* Values.  Python None is the empty tuple.  An optional string is a       *)
(* one-element tuple <<s>>.  An ISO-8601 timestamp string, as written by   *)
(* datetime.isoformat(), is the tuple of the fields the string spells:     *)
(* <<year, month, day, hour, minute, second>>.  A datetime is the number   *)
(* of seconds since 1970-01-01T00:00:00Z (sub-second digits are dropped).  *)
(***************************************************************************)
EXTENDS Integers, Sequences, FiniteSets, TLC

VARIABLES now, settings, transactions, stripe_sessions, ret, requests

vars == <<now, settings, transactions, stripe_sessions, ret, requests>>

None == <<>>

Some(v) == <<v>>

----------------------------------------------------------------------------
(* Time: datetime arithmetic, isoformat and fromisoformat.                 *)

SecondsPerHour == 3600

SecondsPerDay == 24 * SecondsPerHour

GRACE_PERIOD_HOURS == 48

AnnualPeriodDays == 365

MonthlyPeriodDays == 30

\* timedelta(hours = h), timedelta(days = d) in seconds
Hours(h) == h * SecondsPerHour

Days(d) == d * SecondsPerDay

\* days since 1970-01-01 of the civil date y-m-d (proleptic Gregorian)
DaysFromCivil(y, m, d) ==
    LET yy  == IF m <= 2 THEN y - 1 ELSE y
        era == yy \div 400
        yoe == yy - era * 400
        mp  == IF m > 2 THEN m - 3 ELSE m + 9
        doy == (153 * mp + 2) \div 5 + d - 1
        doe == yoe * 365 + yoe \div 4 - yoe \div 100 + doy
    IN  era * 146097 + doe - 719468

\* the civil date <<y, m, d>> of a day number
CivilFromDays(z) ==
    LET zz  == z + 719468
        era == zz \div 146097
        doe == zz - era * 146097
        yoe == (doe - doe \div 1460 + doe \div 36524 - doe \div 146096) \div 365
        doy == doe - (365 * yoe + yoe \div 4 - yoe \div 100)
        mp  == (5 * doy + 2) \div 153
        d   == doy - (153 * mp + 2) \div 5 + 1
        m   == IF mp < 10 THEN mp + 3 ELSE mp - 9
        y   == yoe + era * 400
    IN  <<IF m <= 2 THEN y + 1 ELSE y, m, d>>

\* datetime(y, m, d, h, mi, s, tzinfo = utc)
MakeDatetime(y, m, d, h, mi, s) ==
    DaysFromCivil(y, m, d) * SecondsPerDay + h * SecondsPerHour + mi * 60 + s

\* dt.isoformat(): the fields of the string
isoformat(dt) ==
    LET c   == CivilFromDays(dt \div SecondsPerDay)
        sod == dt % SecondsPerDay
    IN  <<c[1], c[2], c[3], sod \div SecondsPerHour,
          (sod % SecondsPerHour) \div 60, sod % 60>>

\* datetime.fromisoformat(s.replace('Z', '+00:00'))
fromisoformat(s) == MakeDatetime(s[1], s[2], s[3], s[4], s[5], s[6])

\* now.replace(day=1, hour=0, minute=0, second=0, microsecond=0)
StartOfMonth(dt) ==
    LET c == CivilFromDays(dt \div SecondsPerDay)
    IN  MakeDatetime(c[1], c[2], 1, 0, 0, 0)

\* EndOfMonth as a fixed 30 days after the start of the month
EndOfMonth_thirty_days(dt) == StartOfMonth(dt) + Days(MonthlyPeriodDays)

\* the following month's first instant, December rolling to January
EndOfMonth(dt) ==
    LET c == CivilFromDays(dt \div SecondsPerDay)
    IN  IF c[2] = 12
        THEN MakeDatetime(c[1] + 1, 1, 1, 0, 0, 0)
        ELSE MakeDatetime(c[1], c[2] + 1, 1, 0, 0, 0)

----------------------------------------------------------------------------
(* PricingCatalog                                                          *)

USAGE_LIMITS ==
    [free |->
        [posts_per_month |-> 5, ai_generations_per_month |-> 3,
         ai_hook_improvements_per_month |-> 3, active_scheduled_posts |-> 2,
         knowledge_items |-> 10, url_imports_per_month |-> 3,
         gem_extractions_per_month |-> 2, voice_profiles |-> 1,
         voice_analyses_per_month |-> 1, url_history |-> 5,
         tracked_influencers |-> 3, tracked_posts |-> 5,
         comment_drafts_per_month |-> 0, topic_suggestions_per_week |-> 3],
     basic |->
        [posts_per_month |-> 30, ai_generations_per_month |-> 20,
         ai_hook_improvements_per_month |-> 15, active_scheduled_posts |-> 10,
         knowledge_items |-> 50, url_imports_per_month |-> 20,
         gem_extractions_per_month |-> 10, voice_profiles |-> 3,
         voice_analyses_per_month |-> 5, url_history |-> 25,
         tracked_influencers |-> 15, tracked_posts |-> 25,
         comment_drafts_per_month |-> 10, topic_suggestions_per_week |-> -1],
     premium |->
        [posts_per_month |-> -1, ai_generations_per_month |-> -1,
         ai_hook_improvements_per_month |-> -1, active_scheduled_posts |-> -1,
         knowledge_items |-> -1, url_imports_per_month |-> -1,
         gem_extractions_per_month |-> -1, voice_profiles |-> -1,
         voice_analyses_per_month |-> -1, url_history |-> -1,
         tracked_influencers |-> -1, tracked_posts |-> -1,
         comment_drafts_per_month |-> -1, topic_suggestions_per_week |-> -1]]

\* dict.get(key, default)
Get(d, key, default) == IF key \in DOMAIN d THEN d[key] ELSE default

get_usage_limit(tier, limit_name) ==
    Get(Get(USAGE_LIMITS, tier, USAGE_LIMITS["free"]), limit_name, 0)

\* the values a feature flag takes: the booleans True and False, or a string
\* grade; a value is <<type, text>>
PyTrue == <<"bool", "True">>

PyFalse == <<"bool", "False">>

PyStr(text) == <<"str", text>>

FEATURE_ACCESS ==
    [free |->
        [framework_editor |-> PyFalse, file_upload |-> PyFalse,
         knowledge_informed_ai |-> PyFalse,
         voice_matched_generation |-> PyFalse, favorite_urls |-> PyFalse,
         save_url_to_vault |-> PyFalse, linkedin_connection |-> PyFalse,
         direct_publish |-> PyFalse, engagement_timer |-> PyFalse,
         browser_notifications |-> PyFalse, comment_drafting |-> PyFalse,
         comment_variations |-> PyFalse, discovery_assistant |-> PyFalse,
         engagement_reminders |-> PyFalse,
         engagement_analytics |-> PyStr("basic"),
         analytics_by_pillar |-> PyFalse, analytics_by_framework |-> PyFalse,
         analytics_trends |-> PyFalse, analytics_top_posts |-> PyFalse,
         ai_strategy_recommendations |-> PyFalse,
         engagement_heatmap |-> PyFalse, export_reports |-> PyFalse,
         email_support |-> PyFalse, priority_support |-> PyFalse,
         data_export |-> PyFalse, api_access |-> PyFalse],
     basic |->
        [framework_editor |-> PyTrue, file_upload |-> PyTrue,
         knowledge_informed_ai |-> PyTrue,
         voice_matched_generation |-> PyTrue, favorite_urls |-> PyTrue,
         save_url_to_vault |-> PyTrue, linkedin_connection |-> PyTrue,
         direct_publish |-> PyTrue, engagement_timer |-> PyTrue,
         browser_notifications |-> PyTrue, comment_drafting |-> PyTrue,
         comment_variations |-> PyFalse, discovery_assistant |-> PyTrue,
         engagement_reminders |-> PyFalse,
         engagement_analytics |-> PyStr("basic"),
         analytics_by_pillar |-> PyTrue, analytics_by_framework |-> PyTrue,
         analytics_trends |-> PyTrue, analytics_top_posts |-> PyTrue,
         ai_strategy_recommendations |-> PyFalse,
         engagement_heatmap |-> PyFalse, export_reports |-> PyFalse,
         email_support |-> PyTrue, priority_support |-> PyFalse,
         data_export |-> PyFalse, api_access |-> PyFalse],
     premium |->
        [framework_editor |-> PyTrue, file_upload |-> PyTrue,
         knowledge_informed_ai |-> PyTrue,
         voice_matched_generation |-> PyTrue, favorite_urls |-> PyTrue,
         save_url_to_vault |-> PyTrue, linkedin_connection |-> PyTrue,
         direct_publish |-> PyTrue, engagement_timer |-> PyTrue,
         browser_notifications |-> PyTrue, comment_drafting |-> PyTrue,
         comment_variations |-> PyTrue, discovery_assistant |-> PyTrue,
         engagement_reminders |-> PyTrue,
         engagement_analytics |-> PyStr("full"),
         analytics_by_pillar |-> PyTrue, analytics_by_framework |-> PyTrue,
         analytics_trends |-> PyTrue, analytics_top_posts |-> PyTrue,
         ai_strategy_recommendations |-> PyTrue,
         engagement_heatmap |-> PyTrue, export_reports |-> PyTrue,
         email_support |-> PyTrue, priority_support |-> PyTrue,
         data_export |-> PyTrue, api_access |-> PyTrue]]

\* has_feature_access with any string, the empty one included, granting
has_feature_access_any_string(tier, feature_name) ==
    LET access == Get(Get(FEATURE_ACCESS, tier, FEATURE_ACCESS["free"]),
                      feature_name, PyStr(""))
    IN  access = PyTrue \/ access[1] = "str"

has_feature_access(tier, feature_name) ==
    LET access == Get(Get(FEATURE_ACCESS, tier, FEATURE_ACCESS["free"]),
                      feature_name, PyFalse)
    IN  access = PyTrue \/ (access[1] = "str" /\ access[2] # "")


----------------------------------------------------------------------------
(* Defaults of a tenant's settings document                                *)

\* get_default_subscription starting every tenant on the basic tier
get_default_subscription_basic_trial ==
    [tier |-> "basic", status |-> "active", billing_cycle |-> None,
     currency |-> "aud", stripe_customer_id |-> None,
     stripe_subscription_id |-> None, stripe_price_id |-> None,
     current_period_start |-> None, current_period_end |-> None,
     cancelled_at |-> None, cancel_at_period_end |-> FALSE,
     payment_failed_at |-> None, grace_period_ends |-> None,
     payment_method_last4 |-> None, payment_method_brand |-> None,
     payment_method_exp |-> None]

\* SubscriptionData().model_dump()
get_default_subscription ==
    [tier |-> "free", status |-> "active", billing_cycle |-> None,
     currency |-> "aud", stripe_customer_id |-> None,
     stripe_subscription_id |-> None, stripe_price_id |-> None,
     current_period_start |-> None, current_period_end |-> None,
     cancelled_at |-> None, cancel_at_period_end |-> FALSE,
     payment_failed_at |-> None, grace_period_ends |-> None,
     payment_method_last4 |-> None, payment_method_brand |-> None,
     payment_method_exp |-> None]

get_default_usage(t) ==
    [period_start |-> isoformat(StartOfMonth(t)),
     period_end |-> isoformat(EndOfMonth(t)),
     posts_created |-> 0, ai_generations |-> 0, ai_hook_improvements |-> 0,
     url_imports |-> 0, gem_extractions |-> 0, voice_analyses |-> 0,
     comment_drafts |-> 0,
     topic_suggestions_week_start |-> isoformat(t),
     topic_suggestions_count |-> 0,
     lifetime_posts |-> 0, lifetime_ai_generations |-> 0,
     last_reset |-> isoformat(t)]

\* the counters of the monthly window
MonthlyCounters ==
    {"posts_created", "ai_generations", "ai_hook_improvements", "url_imports",
     "gem_extractions", "voice_analyses", "comment_drafts"}

----------------------------------------------------------------------------
(* SubscriptionState: pure functions of (subscription, now)                *)

\* get_effective_tier with the grace comparison made inclusive
get_effective_tier_grace_inclusive(subscription, t) ==
    LET tier   == Get(subscription, "tier", "free")
        status == Get(subscription, "status", "active")
        grace_period_ends == Get(subscription, "grace_period_ends", None)
    IN  IF tier = "free" THEN "free"
        ELSE IF status = "active" THEN tier
        ELSE IF /\ grace_period_ends # None
                /\ status = "past_due"
                /\ t <= fromisoformat(grace_period_ends)
             THEN tier
             ELSE "free"

\* get_effective_tier without the free-tier return, the grace period granting
\* basic access
get_effective_tier_grace_basic(subscription, t) ==
    LET tier   == Get(subscription, "tier", "free")
        status == Get(subscription, "status", "active")
        grace_period_ends == Get(subscription, "grace_period_ends", None)
    IN  IF status = "active" THEN tier
        ELSE IF /\ grace_period_ends # None
                /\ status = "past_due"
                /\ t < fromisoformat(grace_period_ends)
             THEN "basic"
             ELSE "free"

\* get_effective_tier treating a subscription set to cancel as not active
get_effective_tier_active_uncancelled(subscription, t) ==
    LET tier   == Get(subscription, "tier", "free")
        status == Get(subscription, "status", "active")
        grace_period_ends == Get(subscription, "grace_period_ends", None)
    IN  IF tier = "free" THEN "free"
        ELSE IF status = "active"
                /\ ~ Get(subscription, "cancel_at_period_end", FALSE)
             THEN tier
        ELSE IF /\ grace_period_ends # None
                /\ status = "past_due"
                /\ t < fromisoformat(grace_period_ends)
             THEN tier
             ELSE "free"

\* get_effective_tier honouring an unexpired grace stamp under any status
get_effective_tier_any_status_grace(subscription, t) ==
    LET tier   == Get(subscription, "tier", "free")
        status == Get(subscription, "status", "active")
        grace_period_ends == Get(subscription, "grace_period_ends", None)
    IN  IF tier = "free" THEN "free"
        ELSE IF status = "active" THEN tier
        ELSE IF /\ grace_period_ends # None
                /\ t < fromisoformat(grace_period_ends)
             THEN tier
             ELSE "free"

get_effective_tier(subscription, t) ==
    LET tier   == Get(subscription, "tier", "free")
        status == Get(subscription, "status", "active")
        grace_period_ends == Get(subscription, "grace_period_ends", None)
    IN  IF tier = "free" THEN "free"
        ELSE IF status = "active" THEN tier
        ELSE IF /\ grace_period_ends # None
                /\ status = "past_due"
                /\ t < fromisoformat(grace_period_ends)
             THEN tier
             ELSE "free"

is_in_grace_period(subscription, t) ==
    LET grace_period_ends == Get(subscription, "grace_period_ends", None)
    IN  IF Get(subscription, "status", None) # "past_due" THEN FALSE
        ELSE IF grace_period_ends = None THEN FALSE
        ELSE t < fromisoformat(grace_period_ends)

\* TruncDiv rounding the quotient up
TruncDiv_round_up(a, b) == (a + b - 1) \div b

\* int(x): truncation toward zero of a quotient
TruncDiv(a, b) == IF a >= 0 THEN a \div b ELSE -((-a) \div b)

Max(a, b) == IF a >= b THEN a ELSE b

get_grace_period_hours_remaining(subscription, t) ==
    LET grace_period_ends == Get(subscription, "grace_period_ends", None)
    IN  IF ~ is_in_grace_period(subscription, t) THEN 0
        ELSE IF grace_period_ends = None THEN 0
        ELSE Max(0, TruncDiv(fromisoformat(grace_period_ends) - t, SecondsPerHour))

\* calculate_grace_period_end taking the 48 as days
calculate_grace_period_end_days(from_time) ==
    isoformat(from_time + Days(GRACE_PERIOD_HOURS))

calculate_grace_period_end(from_time) ==
    isoformat(from_time + Hours(GRACE_PERIOD_HOURS))

get_reset_usage_data(t) ==
    [period_start |-> isoformat(StartOfMonth(t)),
     period_end |-> isoformat(EndOfMonth(t)),
     posts_created |-> 0, ai_generations |-> 0, ai_hook_improvements |-> 0,
     url_imports |-> 0, gem_extractions |-> 0, voice_analyses |-> 0,
     comment_drafts |-> 0,
     last_reset |-> isoformat(t)]

\* should_reset_monthly_usage with the comparison made strict
should_reset_monthly_usage_strict(usage, t) ==
    LET period_end == Get(usage, "period_end", None)
    IN  IF period_end = None THEN TRUE
        ELSE t > fromisoformat(period_end)

should_reset_monthly_usage(usage, t) ==
    LET period_end == Get(usage, "period_end", None)
    IN  IF period_end = None THEN TRUE
        ELSE t >= fromisoformat(period_end)

\* (now - start_date).days >= 7
should_reset_weekly_suggestions(usage, t) ==
    LET week_start == Get(usage, "topic_suggestions_week_start", None)
    IN  IF week_start = None THEN TRUE
        ELSE (t - fromisoformat(week_start)) \div SecondsPerDay >= 7

----------------------------------------------------------------------------
(* EntitlementGate                                                         *)

usage_field_map ==
    [posts_per_month |-> "posts_created",
     ai_generations_per_month |-> "ai_generations",
     ai_hook_improvements_per_month |-> "ai_hook_improvements",
     url_imports_per_month |-> "url_imports",
     gem_extractions_per_month |-> "gem_extractions",
     voice_analyses_per_month |-> "voice_analyses",
     comment_drafts_per_month |-> "comment_drafts"]

\* WithinLimit with the comparison made inclusive
WithinLimit_inclusive(current, limit) ==
    IF limit = -1 THEN TRUE ELSE current <= limit

\* the limit == -1 test and the comparison of check_usage_limit
WithinLimit(current, limit) ==
    IF limit = -1 THEN TRUE ELSE current < limit

check_usage_limit(subscription, usage, usage_type, t) ==
    LET effective_tier == get_effective_tier(subscription, t)
        limit          == get_usage_limit(effective_tier, usage_type)
        usage_field    == Get(usage_field_map, usage_type, usage_type)
        current        == Get(usage, usage_field, 0)
    IN  WithinLimit(current, limit)

----------------------------------------------------------------------------
(* Subscription updates built by stripe_service.py.  The keys are the      *)
(* fields of the tenant's subscription sub-document (the code writes them  *)
(* as dotted paths "subscription.<field>").                                *)

\* PeriodLength giving every cycle 30 days
PeriodLength_always_monthly(billing_cycle) == Days(MonthlyPeriodDays)

\* timedelta(days = 365) for an annual cycle, else timedelta(days = 30)
PeriodLength(billing_cycle) ==
    IF billing_cycle = Some("annual")
    THEN Days(AnnualPeriodDays)
    ELSE Days(MonthlyPeriodDays)

\* get_subscription_update_from_checkout leaving stale cancellation and
\* grace fields in place
get_subscription_update_from_checkout_keeps_stale(checkout_status, metadata, t) ==
    LET tier          == Get(metadata, "tier", "basic")
        billing_cycle == Get(metadata, "billing_cycle", "monthly")
        currency      == Get(metadata, "currency", "aud")
        period_end    == t + PeriodLength(Some(billing_cycle))
    IN  [tier |-> tier,
         status |-> "active",
         billing_cycle |-> Some(billing_cycle),
         currency |-> currency,
         current_period_start |-> isoformat(t),
         current_period_end |-> isoformat(period_end),
         stripe_subscription_id |-> Get(checkout_status, "subscription", None),
         stripe_customer_id |-> Get(checkout_status, "customer", None)]

get_subscription_update_from_checkout(checkout_status, metadata, t) ==
    LET tier          == Get(metadata, "tier", "basic")
        billing_cycle == Get(metadata, "billing_cycle", "monthly")
        currency      == Get(metadata, "currency", "aud")
        period_end    == t + PeriodLength(Some(billing_cycle))
    IN  [tier |-> tier,
         status |-> "active",
         billing_cycle |-> Some(billing_cycle),
         currency |-> currency,
         current_period_start |-> isoformat(t),
         current_period_end |-> isoformat(period_end),
         cancelled_at |-> None,
         cancel_at_period_end |-> FALSE,
         payment_failed_at |-> None,
         grace_period_ends |-> None,
         stripe_subscription_id |-> Get(checkout_status, "subscription", None),
         stripe_customer_id |-> Get(checkout_status, "customer", None)]

\* get_subscription_cancellation_update ending the subscription at once
get_subscription_cancellation_update_ends_now(t) ==
    [cancel_at_period_end |-> TRUE, cancelled_at |-> isoformat(t),
     status |-> "cancelled"]

get_subscription_cancellation_update(t) ==
    [cancel_at_period_end |-> TRUE, cancelled_at |-> isoformat(t)]

\* get_subscription_reactivation_update leaving the cancellation stamp
get_subscription_reactivation_update_keeps_stamp ==
    [cancel_at_period_end |-> FALSE]

get_subscription_reactivation_update ==
    [cancel_at_period_end |-> FALSE, cancelled_at |-> None]

\* get_payment_failed_update opening no grace period
get_payment_failed_update_no_grace(t) ==
    [status |-> "past_due",
     payment_failed_at |-> isoformat(t),
     grace_period_ends |-> None]

get_payment_failed_update(t) ==
    [status |-> "past_due",
     payment_failed_at |-> isoformat(t),
     grace_period_ends |-> calculate_grace_period_end(t)]

\* get_payment_succeeded_update leaving the grace stamp in place
get_payment_succeeded_update_keeps_grace(billing_cycle, t) ==
    [status |-> "active",
     payment_failed_at |-> None,
     current_period_start |-> isoformat(t),
     current_period_end |-> isoformat(t + PeriodLength(billing_cycle))]

get_payment_succeeded_update(billing_cycle, t) ==
    [status |-> "active",
     payment_failed_at |-> None,
     grace_period_ends |-> None,
     current_period_start |-> isoformat(t),
     current_period_end |-> isoformat(t + PeriodLength(billing_cycle))]

\* get_subscription_expired_update leaving the tier in place
get_subscription_expired_update_keeps_tier ==
    [status |-> "expired",
     billing_cycle |-> None,
     stripe_subscription_id |-> None,
     stripe_price_id |-> None,
     current_period_start |-> None,
     current_period_end |-> None,
     cancelled_at |-> None,
     cancel_at_period_end |-> FALSE,
     payment_failed_at |-> None,
     grace_period_ends |-> None]

get_subscription_expired_update ==
    [tier |-> "free",
     status |-> "expired",
     billing_cycle |-> None,
     stripe_subscription_id |-> None,
     stripe_price_id |-> None,
     current_period_start |-> None,
     current_period_end |-> None,
     cancelled_at |-> None,
     cancel_at_period_end |-> FALSE,
     payment_failed_at |-> None,
     grace_period_ends |-> None]


----------------------------------------------------------------------------
(* The document store: db.user_settings keyed by user_id and               *)
(* db.payment_transactions keyed by session_id.  A key outside the domain  *)
(* is a document that does not exist.  stripe_sessions are the checkout    *)
(* sessions held by the payments provider, keyed by session id.            *)

Users == {"user_1"}

Sessions == {"cs_1"}

\* CheckoutRequest values the tenant submits: <<tier, billing_cycle, currency>>
CheckoutPlans == {<<"premium", "annual", "usd">>, <<"basic", "monthly", "aud">>}

\* fields increment_usage is called with
IncrementFields == {"posts_created", "lifetime_posts"}

\* bound on a usage counter
MaxCount == 1

\* number of clock readings the model takes
MaxClock == 5

\* the first reading of the clock: 2025-12-30T00:00:00Z
ClockStart == MakeDatetime(2025, 12, 30, 0, 0, 0)

\* the readings of datetime.now(timezone.utc), as offsets from the first
ClockOffsets ==
    <<0, Hours(47), Hours(48) - 1, Hours(48), Hours(49), Days(30)>>

ClockReadings == {ClockStart + ClockOffsets[i] : i \in 1..MaxClock}

\* {"$set": {"subscription.<k>": v, ...}} and {"$set": {...}} on a document
ApplySet(doc, update) ==
    [k \in DOMAIN doc \cup DOMAIN update |->
        IF k \in DOMAIN update THEN update[k] ELSE doc[k]]

\* insert_one of a document under a new key
Insert(coll, key, doc) ==
    [k \in DOMAIN coll \cup {key} |-> IF k = key THEN doc ELSE coll[k]]

\* db.user_settings.update_one({"user_id": u}, {"$set": subscription fields})
SetSubscription(coll, u, update) ==
    IF u \in DOMAIN coll
    THEN [coll EXCEPT ![u].subscription = ApplySet(@, update)]
    ELSE coll

\* db.user_settings.update_one({"user_id": u}, {"$set": {"usage": data}})
SetUsage(coll, u, data) ==
    IF u \in DOMAIN coll
    THEN [coll EXCEPT ![u].usage = data]
    ELSE coll

\* db.payment_transactions.update_one({"session_id": s}, {"$set": {"status": "completed", ...}})
CompleteTransaction(coll, s, t) ==
    IF s \in DOMAIN coll
    THEN [coll EXCEPT ![s] = ApplySet(@, [status |-> "completed",
                                           completed_at |-> isoformat(t)])]
    ELSE coll

\* get_user_settings: find_one, and insert_one of the defaults when absent
get_user_settings(coll, u, t) ==
    IF u \in DOMAIN coll
    THEN coll
    ELSE Insert(coll, u, [subscription |-> get_default_subscription,
                          usage |-> get_default_usage(t)])

\* what the last call returned: nothing yet, the status code of a route's
\* response, or (below) the value of a function call
NoResponse == [op |-> "none"]

HttpResponse(code) == [op |-> "http", status_code |-> code]

Init ==
    /\ now = ClockStart
    /\ settings = <<>>
    /\ transactions = <<>>
    /\ stripe_sessions = <<>>
    /\ ret = NoResponse
    /\ requests = <<>>

\* the clock moves on to a later reading
Tick ==
    /\ \E t \in ClockReadings : t > now /\ now' = t
    /\ UNCHANGED <<settings, transactions, stripe_sessions, ret, requests>>

\* GET /settings (any route that only loads the tenant's settings)
GetSettings(u) ==
    /\ u \notin DOMAIN settings
    /\ settings' = get_user_settings(settings, u, now)
    /\ ret' = HttpResponse(200)
    /\ UNCHANGED <<requests, now, transactions, stripe_sessions>>

\* the metadata bag create_checkout_session attaches to the session
CheckoutMetadata(u, plan) ==
    [user_id |-> u, tier |-> plan[1], billing_cycle |-> plan[2],
     currency |-> plan[3], subscription_type |-> "new"]

\* POST /subscription/checkout: the provider opens session s, a pending
\* transaction is stored
create_checkout(u, plan, s) ==
    /\ s \notin DOMAIN stripe_sessions
    /\ stripe_sessions' = Insert(stripe_sessions, s,
          [session_id |-> s, payment_status |-> "unpaid", status |-> "open",
           customer |-> None, subscription |-> None,
           metadata |-> CheckoutMetadata(u, plan)])
    /\ transactions' = Insert(transactions, s,
          [user_id |-> u, session_id |-> s, tier |-> plan[1],
           billing_cycle |-> plan[2], currency |-> plan[3],
           status |-> "pending", created_at |-> isoformat(now)])
    /\ ret' = HttpResponse(200)
    /\ UNCHANGED <<requests, now, settings>>

\* the Stripe objects the provider creates when a session is paid
StripeCustomerOf(u) == Some("cus_" \o u)

StripeSubscriptionOf(s) == Some("sub_" \o s)

\* the tenant pays on the provider's checkout page: the session completes
CustomerPays(s) ==
    /\ s \in DOMAIN stripe_sessions
    /\ stripe_sessions[s].payment_status = "unpaid"
    /\ stripe_sessions' = [stripe_sessions EXCEPT ![s] = ApplySet(@,
          [payment_status |-> "paid", status |-> "complete",
           customer |-> StripeCustomerOf(@.metadata.user_id),
           subscription |-> StripeSubscriptionOf(s)])]
    /\ UNCHANGED <<requests, now, settings, transactions, ret>>

\* cancel_subscription writing the cancellation whether or not the provider
\* accepted it
cancel_subscription_ignores_error(u, modified) ==
    LET loaded       == get_user_settings(settings, u, now)
        subscription == loaded[u].subscription
    IN  /\ IF subscription.tier = "free"
           THEN /\ settings' = loaded
                /\ ret' = HttpResponse(400)
           ELSE /\ settings' = SetSubscription(loaded, u,
                                   get_subscription_cancellation_update(now))
                /\ ret' = IF subscription.stripe_subscription_id # None
                             /\ ~ modified
                          THEN HttpResponse(500) ELSE HttpResponse(200)
        /\ UNCHANGED <<requests, now, transactions, stripe_sessions>>

\* POST /subscription/cancel
\* modified: stripe.Subscription.modify returned (TRUE) or raised a
\* StripeError (FALSE); it is called only for a stored stripe_subscription_id
cancel_subscription(u, modified) ==
    LET loaded       == get_user_settings(settings, u, now)
        subscription == loaded[u].subscription
    IN  /\ IF subscription.tier = "free"
           THEN /\ settings' = loaded
                /\ ret' = HttpResponse(400)
           ELSE IF subscription.stripe_subscription_id # None /\ ~ modified
           THEN /\ settings' = loaded
                /\ ret' = HttpResponse(500)
           ELSE /\ settings' = SetSubscription(loaded, u,
                                   get_subscription_cancellation_update(now))
                /\ ret' = HttpResponse(200)
        /\ UNCHANGED <<requests, now, transactions, stripe_sessions>>

\* POST /subscription/reactivate
reactivate_subscription(u, modified) ==
    LET loaded       == get_user_settings(settings, u, now)
        subscription == loaded[u].subscription
    IN  /\ IF ~ subscription.cancel_at_period_end
           THEN /\ settings' = loaded
                /\ ret' = HttpResponse(400)
           ELSE IF subscription.stripe_subscription_id # None /\ ~ modified
           THEN /\ settings' = loaded
                /\ ret' = HttpResponse(500)
           ELSE /\ settings' = SetSubscription(loaded, u,
                                   get_subscription_reactivation_update)
                /\ ret' = HttpResponse(200)
        /\ UNCHANGED <<requests, now, transactions, stripe_sessions>>

\* the $inc of increment_usage adding two
Inc_by_two(coll, u, field) ==
    IF u \in DOMAIN coll
    THEN [coll EXCEPT ![u].usage =
             ApplySet(@, [f \in {field} |-> Get(@, field, 0) + 2])]
    ELSE coll

\* update_one({"user_id": u}, {"$inc": {"usage.<field>": 1}}): one atomic
\* store operation; no document matches when the tenant has none
Inc(coll, u, field) ==
    IF u \in DOMAIN coll
    THEN [coll EXCEPT ![u].usage =
             ApplySet(@, [f \in {field} |-> Get(@, field, 0) + 1])]
    ELSE coll

\* increment_usage(user_id, field, amount = 1)
increment_usage(u, field) ==
    /\ u \in DOMAIN settings
    /\ Get(settings[u].usage, field, 0) < MaxCount
    /\ settings' = Inc(settings, u, field)
    /\ UNCHANGED <<requests, now, transactions, stripe_sessions, ret>>

\* the usage fields of the UsageResponse that GET /subscription/usage builds
\* from the subscription and the usage record it ends up with
UsageResponse(subscription, usage, t) ==
    LET effective_tier == get_effective_tier(subscription, t)
        limits   == Get(USAGE_LIMITS, effective_tier, USAGE_LIMITS["free"])
        period_end == Get(usage, "period_end", None)
    IN  [posts_created |-> Get(usage, "posts_created", 0),
         posts_limit |-> Get(limits, "posts_per_month", 5),
         ai_generations |-> Get(usage, "ai_generations", 0),
         ai_generations_limit |-> Get(limits, "ai_generations_per_month", 3),
         ai_hook_improvements |-> Get(usage, "ai_hook_improvements", 0),
         ai_hook_improvements_limit |->
             Get(limits, "ai_hook_improvements_per_month", 3),
         comment_drafts |-> Get(usage, "comment_drafts", 0),
         comment_drafts_limit |-> Get(limits, "comment_drafts_per_month", 0),
         period_resets_in_days |->
             IF period_end = None THEN 30
             ELSE Max(0, (fromisoformat(period_end) - t) \div SecondsPerDay),
         tier |-> effective_tier]

\* GET /subscription/usage: the lazy monthly reset, lifetime stats carried over
get_usage(u) ==
    LET loaded == get_user_settings(settings, u, now)
        usage  == loaded[u].usage
        reset_data ==
            ApplySet(get_reset_usage_data(now),
                [lifetime_posts |-> Get(usage, "lifetime_posts", 0),
                 lifetime_ai_generations |->
                     Get(usage, "lifetime_ai_generations", 0)])
    IN  /\ settings' = IF should_reset_monthly_usage(usage, now)
                       THEN SetUsage(loaded, u, reset_data)
                       ELSE loaded
        /\ ret' = HttpResponse(200)
        /\ UNCHANGED <<requests, now, transactions, stripe_sessions>>

\* get_checkout_status looking the transaction up by session id alone
get_checkout_status_any_tenant(s, u) ==
    LET status == stripe_sessions[s]
        found  == s \in DOMAIN transactions
    IN  /\ s \in DOMAIN stripe_sessions
        /\ IF /\ status.payment_status = "paid"
              /\ found
              /\ Get(transactions[s], "status", None) # "completed"
           THEN /\ settings' = SetUsage(
                      SetSubscription(settings, u,
                         get_subscription_update_from_checkout(
                            status, status.metadata, now)),
                      u, get_reset_usage_data(now))
                /\ transactions' = CompleteTransaction(transactions, s, now)
           ELSE UNCHANGED <<settings, transactions>>
        /\ ret' = HttpResponse(200)
        /\ UNCHANGED <<requests, now, stripe_sessions>>

\* GET /subscription/checkout/status/{session_id}: the tenant's browser polls
\* the provider for session s
get_checkout_status(s, u) ==
    LET status == stripe_sessions[s]
        found  == s \in DOMAIN transactions /\ transactions[s].user_id = u
    IN  /\ s \in DOMAIN stripe_sessions
        /\ IF /\ status.payment_status = "paid"
              /\ found
              /\ Get(transactions[s], "status", None) # "completed"
           THEN /\ settings' = SetUsage(
                      SetSubscription(settings, u,
                         get_subscription_update_from_checkout(
                            status, status.metadata, now)),
                      u, get_reset_usage_data(now))
                /\ transactions' = CompleteTransaction(transactions, s, now)
           ELSE UNCHANGED <<settings, transactions>>
        /\ ret' = HttpResponse(200)
        /\ UNCHANGED <<requests, now, stripe_sessions>>


----------------------------------------------------------------------------
(* POST /api/webhook/stripe.  e is the WebhookResponse parsed from a       *)
(* verified event: [event_type, session_id, metadata, customer,            *)
(* subscription].                                                          *)

\* stripe_webhook treating an event type it has no branch for as an expiry
stripe_webhook_unknown_expires(e) ==
    LET metadata == e.metadata
        user_id  == metadata.user_id
    IN  /\ ret' = HttpResponse(200)
        /\ UNCHANGED <<requests, now, stripe_sessions>>
        /\ IF "user_id" \notin DOMAIN metadata
           THEN UNCHANGED <<settings, transactions>>
           ELSE CASE e.event_type = "checkout.session.completed" ->
                    /\ settings' = SetSubscription(settings, user_id,
                          get_subscription_update_from_checkout(e, metadata, now))
                    /\ transactions' =
                          CompleteTransaction(transactions, e.session_id, now)
                  [] e.event_type = "invoice.payment_failed" ->
                    /\ settings' = SetSubscription(settings, user_id,
                          get_payment_failed_update(now))
                    /\ UNCHANGED transactions
                  [] e.event_type = "invoice.payment_succeeded" ->
                    LET billing_cycle ==
                            IF user_id \in DOMAIN settings
                            THEN Get(settings[user_id].subscription,
                                     "billing_cycle", Some("monthly"))
                            ELSE Some("monthly")
                    IN  /\ settings' = SetUsage(
                              SetSubscription(settings, user_id,
                                 get_payment_succeeded_update(billing_cycle, now)),
                              user_id, get_reset_usage_data(now))
                        /\ UNCHANGED transactions
                  [] e.event_type = "customer.subscription.deleted" ->
                    /\ settings' = SetSubscription(settings, user_id,
                          get_subscription_expired_update)
                    /\ UNCHANGED transactions
                  [] OTHER ->
                    /\ settings' = SetSubscription(settings, user_id,
                          get_subscription_expired_update)
                    /\ UNCHANGED transactions

\* what stripe_service.handle_webhook gives for a delivery whose signature
\* or body the provider library rejects: it raises
InvalidDelivery == [error |-> "Webhook handling failed"]

stripe_webhook(e) ==
    IF e = InvalidDelivery
    THEN /\ ret' = HttpResponse(400)
         /\ UNCHANGED <<requests, now, stripe_sessions, settings, transactions>>
    ELSE
    LET metadata == e.metadata
        user_id  == metadata.user_id
    IN  /\ ret' = HttpResponse(200)
        /\ UNCHANGED <<requests, now, stripe_sessions>>
        /\ IF "user_id" \notin DOMAIN metadata
           THEN UNCHANGED <<settings, transactions>>
           ELSE CASE e.event_type = "checkout.session.completed" ->
                    /\ settings' = SetSubscription(settings, user_id,
                          get_subscription_update_from_checkout(e, metadata, now))
                    /\ transactions' =
                          CompleteTransaction(transactions, e.session_id, now)
                  [] e.event_type = "invoice.payment_failed" ->
                    /\ settings' = SetSubscription(settings, user_id,
                          get_payment_failed_update(now))
                    /\ UNCHANGED transactions
                  [] e.event_type = "invoice.payment_succeeded" ->
                    LET billing_cycle ==
                            IF user_id \in DOMAIN settings
                            THEN Get(settings[user_id].subscription,
                                     "billing_cycle", Some("monthly"))
                            ELSE Some("monthly")
                    IN  /\ settings' = SetUsage(
                              SetSubscription(settings, user_id,
                                 get_payment_succeeded_update(billing_cycle, now)),
                              user_id, get_reset_usage_data(now))
                        /\ UNCHANGED transactions
                  [] e.event_type = "customer.subscription.deleted" ->
                    /\ settings' = SetSubscription(settings, user_id,
                          get_subscription_expired_update)
                    /\ UNCHANGED transactions
                  [] OTHER -> UNCHANGED <<settings, transactions>>

\* checkout.session.completed for the paid session s; the provider may
\* deliver it any number of times
CheckoutCompletedEvent(s) ==
    [event_type |-> "checkout.session.completed", session_id |-> s,
     metadata |-> stripe_sessions[s].metadata,
     customer |-> stripe_sessions[s].customer,
     subscription |-> stripe_sessions[s].subscription]

\* an invoice.* or customer.subscription.* event of the subscription that
\* session s bought, carrying the subscription's metadata
SubscriptionEvent(type, s) ==
    [event_type |-> type, session_id |-> "obj_" \o s,
     metadata |-> stripe_sessions[s].metadata,
     customer |-> stripe_sessions[s].customer,
     subscription |-> stripe_sessions[s].subscription]

\* the provider has events to send for session s
Paid(s) ==
    /\ s \in DOMAIN stripe_sessions
    /\ stripe_sessions[s].payment_status = "paid"

WebhookCheckoutCompleted(s) ==
    /\ Paid(s)
    /\ stripe_webhook(CheckoutCompletedEvent(s))

WebhookPaymentFailed(s) ==
    /\ Paid(s)
    /\ stripe_webhook(SubscriptionEvent("invoice.payment_failed", s))

WebhookPaymentSucceeded(s) ==
    /\ Paid(s)
    /\ stripe_webhook(SubscriptionEvent("invoice.payment_succeeded", s))

WebhookSubscriptionDeleted(s) ==
    /\ Paid(s)
    /\ stripe_webhook(SubscriptionEvent("customer.subscription.deleted", s))

\* the event types stripe_webhook has a branch for
RecognizedEventTypes ==
    {"checkout.session.completed", "invoice.payment_failed",
     "invoice.payment_succeeded", "customer.subscription.deleted"}

\* event types of the provider that stripe_webhook has no branch for
OtherEventTypes == {"customer.subscription.updated", "invoice.created"}

\* an event whose object carries no metadata
EventWithoutMetadata(type, s) ==
    [SubscriptionEvent(type, s) EXCEPT !.metadata = <<>>]

WebhookUnknownEvent(s) ==
    /\ Paid(s)
    /\ \E type \in OtherEventTypes :
          stripe_webhook(SubscriptionEvent(type, s))

WebhookWithoutTenant(s) ==
    /\ Paid(s)
    /\ \E type \in RecognizedEventTypes \cup OtherEventTypes :
          stripe_webhook(EventWithoutMetadata(type, s))

Next ==
    \/ Tick
    \/ \E u \in Users : GetSettings(u)
    \/ \E u \in Users, plan \in CheckoutPlans, s \in Sessions :
          create_checkout(u, plan, s)
    \/ \E s \in Sessions : CustomerPays(s)
    \/ \E s \in Sessions : WebhookCheckoutCompleted(s)
    \/ \E s \in Sessions : WebhookPaymentFailed(s)
    \/ \E s \in Sessions : WebhookPaymentSucceeded(s)
    \/ \E s \in Sessions : WebhookSubscriptionDeleted(s)
    \/ \E u \in Users : cancel_subscription(u, TRUE)
    \/ \E u \in Users : reactivate_subscription(u, TRUE)
    \/ \E u \in Users, field \in IncrementFields : increment_usage(u, field)
    \/ \E u \in Users : get_usage(u)
    \/ \E s \in Sessions, u \in Users : get_checkout_status(s, u)
    \/ \E s \in Sessions : WebhookUnknownEvent(s)
    \/ \E s \in Sessions : WebhookWithoutTenant(s)

Spec == Init /\ [][Next]_vars


----------------------------------------------------------------------------
(* The entitlement functions on their own: the subscription, the usage     *)
(* record and the clock reading are inputs, drawn from the sets below, and *)
(* the actions are the calls.                                              *)

\* bound on the usage counter given to check_usage_limit
MaxUsage == 31

TierInputs == {"free", "basic", "premium"}

\* the four SubscriptionStatus values and one value outside the enum
StatusInputs == {"active", "past_due", "cancelled", "expired", "trialing"}

GraceEndInput == ClockStart + Hours(GRACE_PERIOD_HOURS)

NowInputs ==
    {GraceEndInput - Hours(1), GraceEndInput - 1, GraceEndInput,
     GraceEndInput + 1, GraceEndInput + Hours(1)}

SubscriptionInputs ==
    {ApplySet(get_default_subscription,
        [tier |-> tier, status |-> status, grace_period_ends |-> grace,
         payment_failed_at |-> failed, cancel_at_period_end |-> cancel,
         current_period_end |-> period_end]) :
      tier \in TierInputs, status \in StatusInputs,
      grace \in {None, isoformat(GraceEndInput)},
      failed \in {None, isoformat(ClockStart)},
      cancel \in BOOLEAN,
      period_end \in {None, isoformat(ClockStart), isoformat(ClockStart + Days(30))}}

GateSubscriptionInputs ==
    {ApplySet(get_default_subscription,
        [tier |-> tier, status |-> status, grace_period_ends |-> grace]) :
      tier \in TierInputs, status \in {"active", "past_due", "expired"},
      grace \in {None, isoformat(GraceEndInput)}}

UsageInputs ==
    {ApplySet(get_default_usage(ClockStart), [f \in {field} |-> count]) :
      field \in {"posts_created", "comment_drafts"},
      count \in (0..MaxUsage) \cup {10000}}

UsageTypeInputs ==
    {"posts_per_month", "comment_drafts_per_month",
     "topic_suggestions_per_week", "no_such_limit"}

\* GET /subscription
GetSubscription(u) ==
    LET loaded       == get_user_settings(settings, u, now)
        subscription == loaded[u].subscription
    IN  /\ settings' = loaded
        /\ ret' = [op |-> "get_subscription",
                   tier |-> Get(subscription, "tier", "free"),
                   status |-> Get(subscription, "status", "active"),
                   effective_tier |-> get_effective_tier(subscription, now),
                   billing_cycle |-> Get(subscription, "billing_cycle", None),
                   currency |-> Get(subscription, "currency", "aud"),
                   current_period_end |->
                       Get(subscription, "current_period_end", None),
                   cancel_at_period_end |->
                       Get(subscription, "cancel_at_period_end", FALSE),
                   is_in_grace_period |-> is_in_grace_period(subscription, now),
                   grace_period_hours_remaining |->
                       get_grace_period_hours_remaining(subscription, now)]
        /\ UNCHANGED <<requests, now, transactions, stripe_sessions>>

\* await check_usage_limit(user_id, usage_type)
CheckUsageLimit(u, usage_type) ==
    LET loaded == get_user_settings(settings, u, now)
    IN  /\ settings' = loaded
        /\ ret' = [op |-> "check_usage_limit",
                   usage_type |-> usage_type,
                   allowed |-> check_usage_limit(loaded[u].subscription,
                                  loaded[u].usage, usage_type, now)]
        /\ UNCHANGED <<requests, now, transactions, stripe_sessions>>

InitTier ==
    /\ now \in NowInputs
    /\ \E subscription \in SubscriptionInputs :
          settings = [u \in Users |->
              [subscription |-> subscription,
               usage |-> get_default_usage(ClockStart)]]
    /\ transactions = <<>>
    /\ stripe_sessions = <<>>
    /\ ret = NoResponse
    /\ requests = <<>>

NextTier == \E u \in Users : GetSubscription(u)

SpecTier == InitTier /\ [][NextTier]_vars

InitGate ==
    /\ now \in {GraceEndInput - 1, GraceEndInput}
    /\ \E subscription \in GateSubscriptionInputs, usage \in UsageInputs :
          settings = [u \in Users |->
              [subscription |-> subscription, usage |-> usage]]
    /\ transactions = <<>>
    /\ stripe_sessions = <<>>
    /\ ret = NoResponse
    /\ requests = <<>>

NextGate ==
    \E u \in Users, usage_type \in UsageTypeInputs :
        CheckUsageLimit(u, usage_type)

SpecGate == InitGate /\ [][NextGate]_vars


\* The usage period on its own: the clock reading at which a usage record is
\* made (by the defaults or by a reset) is the input.
PeriodYears == {2024, 2025}

PeriodNowInputs ==
    {MakeDatetime(y, m, d, tod[1], tod[2], tod[3]) :
        y \in PeriodYears, m \in 1..12, d \in {1, 10, 15, 28},
        tod \in {<<0, 0, 0>>, <<23, 59, 59>>}}
    \cup {MakeDatetime(2024, 2, 29, 12, 0, 0),
          MakeDatetime(2025, 12, 31, 23, 59, 59)}

\* a settings document made in an earlier month and not read since
StaleSettings ==
    [subscription |-> get_default_subscription,
     usage |-> get_default_usage(MakeDatetime(2023, 12, 15, 9, 30, 0))]

InitPeriod ==
    /\ now \in PeriodNowInputs
    /\ settings \in {<<>>, [u \in Users |-> StaleSettings]}
    /\ transactions = <<>>
    /\ stripe_sessions = <<>>
    /\ ret = NoResponse
    /\ requests = <<>>

NextPeriod ==
    \/ \E u \in Users : GetSettings(u)
    \/ \E u \in Users : get_usage(u)

SpecPeriod == InitPeriod /\ [][NextPeriod]_vars

\* The grace-period functions as the clock advances over one subscription:
\* readings from 48 hours before the grace stamp to 49 hours after it.
GraceNowOffsets ==
    {-Hours(48), 1 - Hours(48), -Hours(47), -Hours(1) - 1, -Hours(1),
     1 - Hours(1), -1, 0, 1, Hours(1), Hours(49)}

GraceNowInputs == {GraceEndInput + d : d \in GraceNowOffsets}

InitGrace ==
    /\ now \in GraceNowInputs
    /\ \E subscription \in GateSubscriptionInputs :
          settings = [u \in Users |->
              [subscription |-> subscription,
               usage |-> get_default_usage(ClockStart)]]
    /\ transactions = <<>>
    /\ stripe_sessions = <<>>
    /\ ret = NoResponse
    /\ requests = <<>>

\* the clock moves on to a later reading
TickGrace ==
    /\ \E t \in GraceNowInputs : t > now /\ now' = t
    /\ UNCHANGED <<settings, transactions, stripe_sessions, ret, requests>>

NextGrace ==
    \/ TickGrace
    \/ \E u \in Users : GetSubscription(u)

SpecGrace == InitGrace /\ [][NextGrace]_vars

\* The webhook receiving events it has no use for.  The inputs are the
\* states a tenant of a paid session is left in by the billing operations:
\* no settings document, the defaults, and the subscription after checkout,
\* after a failed payment and after expiry; the transaction pending or
\* completed.
PaidSession(u, plan, s) ==
    [session_id |-> s, payment_status |-> "paid", status |-> "complete",
     customer |-> StripeCustomerOf(u), subscription |-> StripeSubscriptionOf(s),
     metadata |-> CheckoutMetadata(u, plan)]

StoredTransactions(u, plan, s, t) ==
    LET pending == [user_id |-> u, session_id |-> s, tier |-> plan[1],
                    billing_cycle |-> plan[2], currency |-> plan[3],
                    status |-> "pending", created_at |-> isoformat(t)]
    IN  {Insert(<<>>, s, pending),
         CompleteTransaction(Insert(<<>>, s, pending), s, t)}

TenantSettings(u, plan, s, t) ==
    LET fresh     == get_user_settings(<<>>, u, t)
        subscribed ==
            SetSubscription(fresh, u,
                get_subscription_update_from_checkout(
                    PaidSession(u, plan, s), CheckoutMetadata(u, plan), t))
    IN  {<<>>, fresh, subscribed,
         SetSubscription(subscribed, u, get_payment_failed_update(t)),
         SetSubscription(subscribed, u, get_subscription_cancellation_update(t)),
         SetSubscription(subscribed, u, get_subscription_expired_update)}

InitIgnored ==
    /\ now \in ClockReadings
    /\ \E u \in Users, plan \in CheckoutPlans, s \in Sessions :
          /\ stripe_sessions = Insert(<<>>, s, PaidSession(u, plan, s))
          /\ transactions \in StoredTransactions(u, plan, s, ClockStart)
          /\ settings \in TenantSettings(u, plan, s, ClockStart)
    /\ ret = NoResponse
    /\ requests = <<>>

NextIgnored ==
    \/ \E s \in Sessions : WebhookUnknownEvent(s)
    \/ \E s \in Sessions : WebhookWithoutTenant(s)

SpecIgnored == InitIgnored /\ [][NextIgnored]_vars

\* The feature check on its own: the subscription, the clock reading and
\* the feature name are inputs.
FeatureInputs == DOMAIN FEATURE_ACCESS["free"] \cup {"no_such_feature"}

\* GET /subscription/feature/{feature_name}
check_feature_access(u, feature_name) ==
    LET loaded         == get_user_settings(settings, u, now)
        subscription   == loaded[u].subscription
        effective_tier == get_effective_tier(subscription, now)
        basic_flag     == Get(Get(FEATURE_ACCESS, "basic", <<>>),
                              feature_name, None)
    IN  /\ settings' = loaded
        /\ ret' = [op |-> "check_feature_access",
                   feature |-> feature_name,
                   has_access |-> has_feature_access(effective_tier,
                                                     feature_name),
                   tier |-> effective_tier,
                   required_tier |->
                       IF basic_flag \notin {None, PyFalse, PyStr("")}
                       THEN "basic" ELSE "premium"]
        /\ UNCHANGED <<requests, now, transactions, stripe_sessions>>

InitFeature ==
    /\ now \in {GraceEndInput - 1, GraceEndInput}
    /\ \E subscription \in GateSubscriptionInputs :
          settings = [u \in Users |->
              [subscription |-> subscription,
               usage |-> get_default_usage(ClockStart)]]
    /\ transactions = <<>>
    /\ stripe_sessions = <<>>
    /\ ret = NoResponse
    /\ requests = <<>>

NextFeature ==
    \E u \in Users, feature_name \in FeatureInputs :
        check_feature_access(u, feature_name)

SpecFeature == InitFeature /\ [][NextFeature]_vars

----------------------------------------------------------------------------
(* Claims about effective_tier (checked under SpecTier)                    *)

\* the subscription the last GET /subscription answered for
Answered(u) == ret.op = "get_subscription" /\ u \in DOMAIN settings

\* C1: for a past_due subscription with a grace stamp, effective_tier is the
\* recorded tier while now < grace_period_ends and free from then on: the
\* tier one second before grace_period_ends, free exactly at it and one
\* second after it.
C1_PastDueGraceBoundary ==
    \A u \in Users :
        LET sub == settings[u].subscription
            g   == sub.grace_period_ends
        IN  (Answered(u) /\ sub.status = "past_due" /\ g # None) =>
              /\ ret.effective_tier =
                    IF now < fromisoformat(g) THEN sub.tier ELSE "free"
              /\ now = fromisoformat(g) - 1 => ret.effective_tier = sub.tier
              /\ now = fromisoformat(g) => ret.effective_tier = "free"
              /\ now = fromisoformat(g) + 1 => ret.effective_tier = "free"

C1_Witness ==
    \E u \in Users :
        LET sub == settings[u].subscription
        IN  /\ Answered(u)
            /\ sub.tier = "premium"
            /\ sub.status = "past_due"
            /\ sub.grace_period_ends # None
            /\ now = fromisoformat(sub.grace_period_ends)
            /\ ret.effective_tier = "free"

\* C4: a subscription with tier free has effective_tier free, whatever its
\* status, the clock reading and its grace fields.
C4_FreeTierIsFree ==
    \A u \in Users :
        (Answered(u) /\ settings[u].subscription.tier = "free") =>
            ret.effective_tier = "free"

C4_Witness ==
    \E u \in Users :
        LET sub == settings[u].subscription
        IN  /\ Answered(u)
            /\ sub.tier = "free"
            /\ sub.status = "past_due"
            /\ sub.payment_failed_at # None
            /\ sub.grace_period_ends # None
            /\ now < fromisoformat(sub.grace_period_ends)
            /\ ret.effective_tier = "free"

\* C5: a subscription with status active has effective_tier equal to its
\* recorded tier at every clock reading, whatever current_period_end,
\* cancel_at_period_end and the grace fields hold.
C5_ActiveKeepsTier ==
    \A u \in Users :
        (Answered(u) /\ settings[u].subscription.status = "active") =>
            ret.effective_tier = settings[u].subscription.tier

C5_Witness ==
    \E u \in Users :
        LET sub == settings[u].subscription
        IN  /\ Answered(u)
            /\ sub.status = "active"
            /\ sub.tier = "premium"
            /\ sub.cancel_at_period_end
            /\ sub.current_period_end # None
            /\ fromisoformat(sub.current_period_end) < now
            /\ sub.grace_period_ends # None
            /\ fromisoformat(sub.grace_period_ends) < now
            /\ ret.effective_tier = "premium"

\* C6: for a paid tier, effective_tier is free under every status other than
\* active and past_due inside the grace period (expired, cancelled, a value
\* outside the enum, past_due without a grace stamp, past_due with the grace
\* period over); so effective_tier is always the recorded tier or free.
C6_OtherStatusesAreFree ==
    \A u \in Users :
        LET sub     == settings[u].subscription
            g       == sub.grace_period_ends
            inGrace == /\ sub.status = "past_due"
                       /\ g # None
                       /\ now < fromisoformat(g)
        IN  Answered(u) =>
              /\ (sub.tier # "free" /\ sub.status # "active" /\ ~ inGrace) =>
                    ret.effective_tier = "free"
              /\ ret.effective_tier \in {sub.tier, "free"}

C6_Witness ==
    \E u \in Users :
        LET sub == settings[u].subscription
        IN  /\ Answered(u)
            /\ sub.tier = "basic"
            /\ sub.status = "trialing"
            /\ sub.grace_period_ends # None
            /\ now < fromisoformat(sub.grace_period_ends)
            /\ ret.effective_tier = "free"

----------------------------------------------------------------------------
(* Claim about check_usage (checked under SpecGate)                        *)

\* C7: check_usage takes the limit of the effective tier for the resource;
\* it allows when the limit is -1 and otherwise denies exactly when the
\* counter has reached the limit.  Basic, posts_per_month (limit 30): allowed
\* for 0..29 posts, denied at 30.  Premium (limit -1 for every resource of
\* the catalog): allowed at any usage, 10000 included.
C7_CheckUsage ==
    \A u \in Users :
        LET sub     == settings[u].subscription
            usage   == settings[u].usage
            limit   == get_usage_limit(get_effective_tier(sub, now),
                                       ret.usage_type)
            current == Get(usage,
                           Get(usage_field_map, ret.usage_type, ret.usage_type),
                           0)
        IN  ret.op = "check_usage_limit" =>
              /\ ret.allowed = (limit = -1 \/ ~ (current >= limit))
              /\ (sub.tier = "basic" /\ sub.status = "active"
                    /\ ret.usage_type = "posts_per_month") =>
                    (ret.allowed <=> usage.posts_created \in 0..29)
              /\ (sub.tier = "premium" /\ sub.status = "active"
                    /\ ret.usage_type \in DOMAIN USAGE_LIMITS["premium"]) =>
                    ret.allowed

C7_Witness ==
    \E u \in Users :
        /\ ret.op = "check_usage_limit"
        /\ ret.usage_type = "posts_per_month"
        /\ settings[u].subscription.tier = "basic"
        /\ settings[u].subscription.status = "active"
        /\ settings[u].usage.posts_created = 30
        /\ ~ ret.allowed


----------------------------------------------------------------------------
(* Claims about the billing state machine (checked under Spec)             *)

\* the tenant a session belongs to has a settings document
Billed(s, u) ==
    /\ s \in DOMAIN transactions
    /\ transactions[s].user_id = u
    /\ u \in DOMAIN settings

\* C2: a checkout.session.completed event delivered again for a session
\* that has been applied once (the stored transaction is completed and the
\* subscription carries the session's Stripe subscription) is a no-op: the
\* tenant's settings, current_period_start and current_period_end among
\* them, stay as the first delivery left them.
C2_CheckoutReplayIsNoOp ==
    [][\A s \in Sessions, u \in Users :
          (/\ WebhookCheckoutCompleted(s)
           /\ Billed(s, u)
           /\ transactions[s].status = "completed"
           /\ settings[u].subscription.stripe_subscription_id
                 = StripeSubscriptionOf(s))
          => UNCHANGED settings]_vars

\* C3: in every reachable state grace_period_ends is set iff status is
\* past_due, and payment_failed_at is set iff grace_period_ends is set.
C3_GraceFieldsTrackPastDue ==
    \A u \in DOMAIN settings :
        LET sub == settings[u].subscription
        IN  /\ sub.grace_period_ends # None <=> sub.status = "past_due"
            /\ sub.payment_failed_at # None <=> sub.grace_period_ends # None

C3_Witness ==
    \E u \in DOMAIN settings :
        LET sub == settings[u].subscription
        IN  /\ sub.status = "past_due"
            /\ sub.tier = "premium"
            /\ sub.cancel_at_period_end
            /\ sub.grace_period_ends # None
            /\ sub.payment_failed_at # None
            /\ sub.current_period_start # None
            /\ fromisoformat(sub.payment_failed_at)
                  > fromisoformat(sub.current_period_start)

\* C8: invoice.payment_failed at time t on an active premium tenant makes the
\* status past_due with grace_period_ends = t + 48 hours; from then on, with
\* no further event, effective_tier is premium at t + 47 hours and free at
\* t + 49 hours.
C8_GracePeriodScenario ==
    /\ [][\A s \in Sessions, u \in Users :
            (/\ WebhookPaymentFailed(s)
             /\ Billed(s, u)
             /\ settings[u].subscription.tier = "premium"
             /\ settings[u].subscription.status = "active")
            => /\ settings'[u].subscription.status = "past_due"
               /\ settings'[u].subscription.payment_failed_at = isoformat(now)
               /\ fromisoformat(settings'[u].subscription.grace_period_ends)
                     = now + 48 * 3600]_vars
    /\ [](\A u \in DOMAIN settings :
            LET sub == settings[u].subscription
                t   == fromisoformat(sub.payment_failed_at)
            IN  (sub.tier = "premium" /\ sub.status = "past_due") =>
                  /\ fromisoformat(sub.grace_period_ends) = t + 48 * 3600
                  /\ now = t + 47 * 3600 =>
                        get_effective_tier(sub, now) = "premium"
                  /\ now = t + 49 * 3600 =>
                        get_effective_tier(sub, now) = "free")

C8_Witness ==
    \E u \in DOMAIN settings :
        LET sub == settings[u].subscription
        IN  /\ sub.tier = "premium"
            /\ sub.status = "past_due"
            /\ now = fromisoformat(sub.payment_failed_at) + 49 * 3600
            /\ get_effective_tier(sub, now) = "free"

\* C9: invoice.payment_succeeded on a past_due tenant of a paid tier makes
\* the status active, clears payment_failed_at and grace_period_ends, sets
\* every monthly usage counter to 0 and keeps lifetime_posts at the value it
\* had before the event.
C9_PaymentSucceededKeepsLifetime ==
    [][\A s \in Sessions, u \in Users :
          (/\ WebhookPaymentSucceeded(s)
           /\ Billed(s, u)
           /\ settings[u].subscription.tier # "free"
           /\ settings[u].subscription.status = "past_due")
          => /\ settings'[u].subscription.status = "active"
             /\ settings'[u].subscription.payment_failed_at = None
             /\ settings'[u].subscription.grace_period_ends = None
             /\ \A f \in MonthlyCounters : Get(settings'[u].usage, f, 0) = 0
             /\ Get(settings'[u].usage, "lifetime_posts", 0)
                   = Get(settings[u].usage, "lifetime_posts", 0)]_vars

\* C10: customer.subscription.deleted, from any subscription state, leaves
\* tier free, status expired and every Stripe and billing reference field
\* null: stripe_subscription_id, stripe_customer_id, stripe_price_id,
\* billing_cycle, the period bounds, the cancellation and the grace fields.
C10_DeletedClearsBillingReferences ==
    [][\A s \in Sessions, u \in Users :
          (WebhookSubscriptionDeleted(s) /\ Billed(s, u))
          => LET sub == settings'[u].subscription
             IN  /\ sub.tier = "free"
                 /\ sub.status = "expired"
                 /\ sub.stripe_subscription_id = None
                 /\ sub.stripe_customer_id = None
                 /\ sub.stripe_price_id = None
                 /\ sub.billing_cycle = None
                 /\ sub.current_period_start = None
                 /\ sub.current_period_end = None
                 /\ sub.cancelled_at = None
                 /\ sub.cancel_at_period_end = FALSE
                 /\ sub.payment_failed_at = None
                 /\ sub.grace_period_ends = None]_vars

----------------------------------------------------------------------------
(* Claims about the usage record (checked under Spec)                      *)

LifetimeCounters == {"lifetime_posts", "lifetime_ai_generations"}

\* C11: lifetime_posts and lifetime_ai_generations never decrease: no step
\* (the lazy monthly reset of GET /subscription/usage, the usage reset on
\* invoice.payment_succeeded, the usage reset after a completed checkout,
\* expiry, or any other operation) lowers or removes them.
C11_LifetimeCountersNeverDecrease ==
    [][\A u \in DOMAIN settings :
          /\ u \in DOMAIN settings'
          /\ \A f \in LifetimeCounters :
                Get(settings'[u].usage, f, 0) >= Get(settings[u].usage, f, 0)]_vars

\* C12: a monthly rollover (a step that starts a new usage period: the lazy
\* reset on read, or the reset on payment_succeeded / checkout) leaves
\* topic_suggestions_week_start and topic_suggestions_count as they were.
C12_MonthlyRolloverKeepsWeeklyWindow ==
    [][\A u \in DOMAIN settings :
          LET before == settings[u].usage
              after  == settings'[u].usage
          IN  (/\ u \in DOMAIN settings'
               /\ Get(after, "last_reset", None) # Get(before, "last_reset", None))
              => /\ Get(after, "topic_suggestions_week_start", None)
                      = Get(before, "topic_suggestions_week_start", None)
                 /\ Get(after, "topic_suggestions_count", 0)
                      = Get(before, "topic_suggestions_count", 0)]_vars

----------------------------------------------------------------------------
(* Claim about the usage period (checked under SpecPeriod)                 *)

\* C13: a usage record made at clock reading t (by the defaults or by a
\* reset) has period_start = the first instant of t's calendar month and
\* period_end = the first instant of the following month, December rolling
\* to January of the next year: 2025-12-15 gives 2025-12-01 .. 2026-01-01
\* and 2024-02-10 gives 2024-02-01 .. 2024-03-01; so period_end >
\* period_start in every usage record.
C13_NextPeriodIsCalendarMonth ==
    \A u \in DOMAIN settings :
        LET usage == settings[u].usage
            made  == usage.last_reset
        IN  /\ usage.period_start = <<made[1], made[2], 1, 0, 0, 0>>
            /\ usage.period_end =
                  IF made[2] = 12
                  THEN <<made[1] + 1, 1, 1, 0, 0, 0>>
                  ELSE <<made[1], made[2] + 1, 1, 0, 0, 0>>
            /\ fromisoformat(usage.period_end)
                  > fromisoformat(usage.period_start)
            /\ (made[1] = 2025 /\ made[2] = 12 /\ made[3] = 15) =>
                  /\ usage.period_start = <<2025, 12, 1, 0, 0, 0>>
                  /\ usage.period_end = <<2026, 1, 1, 0, 0, 0>>
            /\ (made[1] = 2024 /\ made[2] = 2 /\ made[3] = 10) =>
                  /\ usage.period_start = <<2024, 2, 1, 0, 0, 0>>
                  /\ usage.period_end = <<2024, 3, 1, 0, 0, 0>>
            /\ made \in {isoformat(now),
                          StaleSettings.usage.last_reset}
            /\ (made = isoformat(now)) =>
                  /\ fromisoformat(usage.period_start) <= now
                  /\ now < fromisoformat(usage.period_end)

C13_Witness ==
    \E u \in DOMAIN settings :
        /\ now = MakeDatetime(2025, 12, 15, 23, 59, 59)
        /\ settings[u].usage.last_reset = <<2025, 12, 15, 23, 59, 59>>
        /\ settings[u].usage.period_start = <<2025, 12, 1, 0, 0, 0>>
        /\ settings[u].usage.period_end = <<2026, 1, 1, 0, 0, 0>>
        /\ Get(settings[u].usage, "lifetime_posts", 0) = 0
        /\ ret = HttpResponse(200)

----------------------------------------------------------------------------
(* Claim about grace_hours_remaining (checked under SpecGrace)             *)

\* C14: the hours remaining that GET /subscription reports are never
\* negative, are max(0, floor of the hours from now to grace_period_ends)
\* while the tenant is in the grace period (past_due, stamp set, now before
\* the stamp), are 0 when the tenant is not in a grace period (now past the
\* stamp included), and never grow from one answer to a later one for the
\* same subscription.
C14_GraceHoursRemaining ==
    [][\A u \in Users :
          GetSubscription(u) =>
            LET sub     == settings[u].subscription
                g       == sub.grace_period_ends
                inGrace == /\ sub.status = "past_due"
                           /\ g # None
                           /\ now < fromisoformat(g)
                floored == (fromisoformat(g) - now) \div 3600
                hours   == ret'.grace_period_hours_remaining
            IN  /\ hours >= 0
                /\ ret'.is_in_grace_period = inGrace
                /\ inGrace => hours = IF floored > 0 THEN floored ELSE 0
                /\ ~ inGrace => hours = 0
                /\ ret.op = "get_subscription" =>
                      hours <= ret.grace_period_hours_remaining]_vars

C14_Witness ==
    \E u \in Users :
        LET sub == settings[u].subscription
        IN  /\ ret.op = "get_subscription"
            /\ sub.status = "past_due"
            /\ sub.grace_period_ends # None
            /\ now = fromisoformat(sub.grace_period_ends) - Hours(48) + 1
            /\ ret.is_in_grace_period
            /\ ret.grace_period_hours_remaining = 47

----------------------------------------------------------------------------
(* Claims about the billing operations (checked under Spec)                *)

\* a step that applies the paid session s to tenant u: the webhook's
\* checkout.session.completed, or the poll finding the transaction pending
AppliesCheckout(s, u) ==
    /\ Billed(s, u)
    /\ \/ WebhookCheckoutCompleted(s)
       \/ /\ get_checkout_status(s, u)
          /\ Paid(s)
          /\ transactions[s].status # "completed"

\* C15: when a tenant's checkout with metadata (tier, cycle, currency)
\* completes at time t, the subscription has that tier, status active,
\* effective_tier = the tier, current_period_start = t, current_period_end =
\* t + 365 days for an annual cycle and t + 30 days for a monthly one, and
\* the Stripe subscription and customer ids of the event; for (premium,
\* annual, usd) the effective tier is premium and the period 365 days.
C15_CheckoutScenario ==
    [][\A s \in Sessions, u \in Users :
          AppliesCheckout(s, u) =>
            LET md  == stripe_sessions[s].metadata
                sub == settings'[u].subscription
            IN  /\ sub.tier = md.tier
                /\ sub.status = "active"
                /\ get_effective_tier(sub, now) = md.tier
                /\ sub.billing_cycle = <<md.billing_cycle>>
                /\ sub.currency = md.currency
                /\ sub.current_period_start = isoformat(now)
                /\ fromisoformat(sub.current_period_end) - now =
                      IF md.billing_cycle = "annual"
                      THEN 365 * 24 * 3600
                      ELSE 30 * 24 * 3600
                /\ sub.stripe_subscription_id = stripe_sessions[s].subscription
                /\ sub.stripe_subscription_id # None
                /\ sub.stripe_customer_id = stripe_sessions[s].customer
                /\ sub.stripe_customer_id # None
                /\ (md.tier = "premium" /\ md.billing_cycle = "annual"
                      /\ md.currency = "usd") =>
                      /\ get_effective_tier(sub, now) = "premium"
                      /\ fromisoformat(sub.current_period_end)
                            = now + 365 * 24 * 3600]_vars

C15_Witness ==
    \E s \in DOMAIN transactions, u \in DOMAIN settings :
        LET sub == settings[u].subscription
        IN  /\ transactions[s].status = "completed"
            /\ transactions[s].user_id = u
            /\ sub.tier = "premium"
            /\ sub.status = "active"
            /\ sub.billing_cycle = <<"annual">>
            /\ sub.currency = "usd"
            /\ sub.current_period_start = isoformat(now)
            /\ sub.current_period_end = <<2026, 12, 31, 23, 0, 0>>
            /\ sub.stripe_subscription_id = StripeSubscriptionOf(s)
            /\ sub.stripe_customer_id = StripeCustomerOf(u)

----------------------------------------------------------------------------
(* Claim about ignored events (checked under SpecIgnored)                  *)

\* C16: an event whose metadata has no user_id (whatever its type), and an
\* event with a user_id whose type is none of the four the webhook knows,
\* is answered as received and changes no settings document (subscription,
\* usage) and no transaction.
C16_IgnoredEventsChangeNothing ==
    [][\A s \in Sessions :
          (WebhookUnknownEvent(s) \/ WebhookWithoutTenant(s)) =>
            /\ ret' = HttpResponse(200)
            /\ settings' = settings
            /\ transactions' = transactions]_vars

C16_Witness ==
    \E s \in DOMAIN transactions, u \in DOMAIN settings :
        /\ ret = HttpResponse(200)
        /\ transactions[s].status = "completed"
        /\ transactions[s].user_id = u
        /\ settings[u].subscription.tier = "premium"
        /\ settings[u].subscription.status = "past_due"
        /\ settings[u].subscription.grace_period_ends # None
        /\ now > ClockStart

----------------------------------------------------------------------------
(* Claims about cancel, reactivate and expiry (checked under Spec)         *)

\* C17: the cancel call on a paid subscription sets cancel_at_period_end to
\* true and cancelled_at to now and leaves every other subscription field
\* (tier, status, period bounds, grace fields, Stripe references) and the
\* usage record as they were, so effective_tier is the same before and
\* after the call.
C17_CancelKeepsEntitlement ==
    [][\A u \in DOMAIN settings :
          (cancel_subscription(u, TRUE) /\ settings[u].subscription.tier # "free") =>
            /\ ret' = HttpResponse(200)
            /\ settings'[u].subscription =
                  [settings[u].subscription EXCEPT
                      !.cancel_at_period_end = TRUE,
                      !.cancelled_at = isoformat(now)]
            /\ settings'[u].usage = settings[u].usage
            /\ get_effective_tier(settings'[u].subscription, now)
                  = get_effective_tier(settings[u].subscription, now)]_vars

C17_Witness ==
    \E u \in DOMAIN settings :
        LET sub == settings[u].subscription
        IN  /\ ret = HttpResponse(200)
            /\ sub.tier = "premium"
            /\ sub.status = "past_due"
            /\ sub.cancel_at_period_end
            /\ sub.cancelled_at = isoformat(now)
            /\ fromisoformat(sub.payment_failed_at) < now
            /\ get_effective_tier(sub, now) = "premium"

\* C18: the reactivate call on a subscription with cancel_at_period_end set
\* clears cancel_at_period_end and cancelled_at and changes nothing else,
\* which is the state before the cancel (a subscription not set to cancel
\* never carries a cancelled_at, and undoing the two fields a cancel wrote
\* gives back the subscription it was called on); with cancel_at_period_end
\* not set the call is rejected (400) and the settings are unchanged.
C18_ReactivateRevertsCancel ==
    /\ [][\A u \in DOMAIN settings :
            LET sub == settings[u].subscription
            IN  /\ reactivate_subscription(u, TRUE) =>
                      IF sub.cancel_at_period_end
                      THEN /\ ret' = HttpResponse(200)
                           /\ settings'[u].subscription =
                                 [sub EXCEPT !.cancel_at_period_end = FALSE,
                                             !.cancelled_at = None]
                           /\ settings'[u].usage = settings[u].usage
                      ELSE /\ ret' = HttpResponse(400)
                           /\ settings' = settings
                /\ (cancel_subscription(u, TRUE) /\ sub.tier # "free"
                       /\ ~ sub.cancel_at_period_end) =>
                      [settings'[u].subscription EXCEPT
                          !.cancel_at_period_end = FALSE,
                          !.cancelled_at = None] = sub]_vars
    /\ [](\A u \in DOMAIN settings :
            ~ settings[u].subscription.cancel_at_period_end =>
                settings[u].subscription.cancelled_at = None)

C18_Witness ==
    \E u \in DOMAIN settings :
        LET sub == settings[u].subscription
        IN  /\ ret = HttpResponse(400)
            /\ sub.tier = "premium"
            /\ sub.status = "active"
            /\ ~ sub.cancel_at_period_end
            /\ sub.cancelled_at = None
            /\ sub.stripe_subscription_id # None

----------------------------------------------------------------------------
(* Claim about check_feature (checked under SpecFeature)                   *)

\* C20: the feature check answers for the tenant's effective tier: the
\* feature is granted iff the catalog's flag for that tier is the boolean
\* true or a non-empty string grade, and denied for a feature the catalog
\* does not list; so a past_due tenant whose grace period is over is denied
\* every feature the free tier does not grant (api_access and
\* comment_drafting for instance) and keeps what free grants
\* (engagement_analytics).
C20_CheckFeature ==
    \A u \in Users :
        LET sub     == settings[u].subscription
            eff     == get_effective_tier(sub, now)
            listed  == ret.feature \in DOMAIN FEATURE_ACCESS[eff]
            flag    == FEATURE_ACCESS[eff][ret.feature]
            lapsed  == /\ sub.status = "past_due"
                       /\ sub.grace_period_ends # None
                       /\ now >= fromisoformat(sub.grace_period_ends)
        IN  ret.op = "check_feature_access" =>
              /\ ret.tier = eff
              /\ ret.has_access =
                    (listed /\ (flag = <<"bool", "True">>
                                  \/ (flag[1] = "str" /\ flag[2] # "")))
              /\ ~ listed => ~ ret.has_access
              /\ lapsed =>
                    /\ ret.tier = "free"
                    /\ ret.has_access =
                          (ret.feature \in DOMAIN FEATURE_ACCESS["free"]
                             /\ FEATURE_ACCESS["free"][ret.feature]
                                   \notin {<<"bool", "False">>, <<"str", "">>})
                    /\ ret.feature \in {"api_access", "comment_drafting"} =>
                          ~ ret.has_access
                    /\ ret.feature = "engagement_analytics" => ret.has_access

C20_Witness ==
    \E u \in Users :
        LET sub == settings[u].subscription
        IN  /\ ret.op = "check_feature_access"
            /\ ret.feature = "api_access"
            /\ sub.tier = "premium"
            /\ sub.status = "past_due"
            /\ sub.grace_period_ends # None
            /\ now >= fromisoformat(sub.grace_period_ends)
            /\ ret.tier = "free"
            /\ ~ ret.has_access

----------------------------------------------------------------------------
(* Claim about a new tenant (checked under SpecPeriod)                     *)

\* C21: the step that creates a tenant's settings on first access creates
\* subscription and usage together with the defaults: tier free, status
\* active, effective_tier free, every monthly counter 0, the usage period
\* the calendar month of the clock reading, and the usage response reports
\* tier free with a posts limit of 5.
C21_NewTenantDefaults ==
    [][\A u \in Users :
          (u \notin DOMAIN settings /\ u \in DOMAIN settings') =>
            LET sub   == settings'[u].subscription
                usage == settings'[u].usage
                today == isoformat(now)
                resp  == UsageResponse(sub, usage, now)
            IN  /\ sub.tier = "free"
                /\ sub.status = "active"
                /\ get_effective_tier(sub, now) = "free"
                /\ \A f \in MonthlyCounters : usage[f] = 0
                /\ usage.period_start = <<today[1], today[2], 1, 0, 0, 0>>
                /\ fromisoformat(usage.period_start) <= now
                /\ now < fromisoformat(usage.period_end)
                /\ resp.tier = "free"
                /\ resp.posts_limit = 5
                /\ resp.posts_created = 0]_vars

C21_Witness ==
    \E u \in DOMAIN settings :
        /\ now = MakeDatetime(2024, 2, 29, 12, 0, 0)
        /\ settings[u].subscription.tier = "free"
        /\ settings[u].subscription.status = "active"
        /\ settings[u].usage.topic_suggestions_week_start = isoformat(now)
        /\ settings[u].usage.period_start = <<2024, 2, 1, 0, 0, 0>>
        /\ settings[u].usage.period_end = <<2024, 3, 1, 0, 0, 0>>
        /\ settings[u].usage.posts_created = 0

----------------------------------------------------------------------------
(* Claims about the order of billing events (checked under Spec)           *)

\* C22: the webhook applies invoice.payment_failed and
\* invoice.payment_succeeded by type alone, whatever the subscription holds:
\* a payment_failed delivered to an active subscription (also one a newer
\* payment_succeeded has just renewed) makes it past_due with a grace period
\* of 48 hours from the delivery, and a payment_succeeded makes it active
\* with the grace fields cleared; the state after the pair is that of the
\* event delivered last.
C22_EventsAppliedByTypeOnly ==
    [][\A s \in Sessions, u \in Users :
          /\ (WebhookPaymentFailed(s) /\ Billed(s, u)) =>
                /\ settings'[u].subscription.status = "past_due"
                /\ settings'[u].subscription.payment_failed_at = isoformat(now)
                /\ settings'[u].subscription.grace_period_ends
                      = isoformat(now + 48 * 3600)
          /\ (WebhookPaymentSucceeded(s) /\ Billed(s, u)) =>
                /\ settings'[u].subscription.status = "active"
                /\ settings'[u].subscription.payment_failed_at = None
                /\ settings'[u].subscription.grace_period_ends = None]_vars

C22_Witness ==
    \E s \in DOMAIN transactions, u \in DOMAIN settings :
        LET sub == settings[u].subscription
        IN  /\ transactions[s].status = "completed"
            /\ sub.tier = "premium"
            /\ sub.status = "past_due"
            /\ sub.current_period_start # None
            /\ fromisoformat(sub.current_period_start)
                  > fromisoformat(transactions[s].completed_at)
            /\ sub.payment_failed_at = sub.current_period_start
            /\ fromisoformat(sub.grace_period_ends)
                  = fromisoformat(sub.current_period_start) + Hours(48)
            /\ get_effective_tier(sub, now) = "premium"

\* C24: applying a checkout to a subscription in any state (free, active,
\* past_due inside or after the grace period, set to cancel, expired) gives
\* status active with the tier, billing cycle and currency of the event's
\* metadata and with cancelled_at, cancel_at_period_end, payment_failed_at
\* and grace_period_ends cleared, so effective_tier is the purchased tier
\* right after it.
C24_CheckoutClearsStaleFields ==
    [][\A s \in Sessions, u \in Users :
          AppliesCheckout(s, u) =>
            LET md  == stripe_sessions[s].metadata
                sub == settings'[u].subscription
            IN  /\ sub.status = "active"
                /\ sub.tier = md.tier
                /\ sub.billing_cycle = <<md.billing_cycle>>
                /\ sub.currency = md.currency
                /\ sub.cancelled_at = None
                /\ sub.cancel_at_period_end = FALSE
                /\ sub.payment_failed_at = None
                /\ sub.grace_period_ends = None
                /\ get_effective_tier(sub, now') = md.tier]_vars

\* a checkout applied to a subscription that had been activated before: the
\* usage record was reset at an earlier clock reading than this activation
C24_Witness ==
    \E s \in DOMAIN transactions, u \in DOMAIN settings :
        LET sub   == settings[u].subscription
            usage == settings[u].usage
        IN  /\ transactions[s].status = "completed"
            /\ transactions[s].completed_at = isoformat(now)
            /\ sub.current_period_start = isoformat(now)
            /\ sub.status = "active"
            /\ sub.tier = "basic"
            /\ sub.cancelled_at = None
            /\ ~ sub.cancel_at_period_end
            /\ sub.grace_period_ends = None
            /\ "topic_suggestions_week_start" \notin DOMAIN usage
            /\ fromisoformat(usage.last_reset) < now

----------------------------------------------------------------------------
(* Metered requests.  A metered route asks check_usage_limit before it     *)
(* does its work and calls increment_usage after it; the two are separate  *)
(* store operations, and the requests of one tenant run concurrently.      *)
(* requests holds the position of each request in flight.                  *)

\* bound on the number of concurrent metered requests of one tenant
MaxRequests == 3

MeterUser == "user_1"

MeterUsageType == "posts_per_month"

MeterField == usage_field_map[MeterUsageType]

\* the finite limit L of the tenant's tier
MeterLimit == get_usage_limit("free", MeterUsageType)

\* the request asks the gate: get_user_settings, then the comparison
MeterCheck(r) ==
    LET loaded == get_user_settings(settings, MeterUser, now)
    IN  /\ requests[r] = "waiting"
        /\ settings' = loaded
        /\ requests' = [requests EXCEPT ![r] =
              IF check_usage_limit(loaded[MeterUser].subscription,
                                   loaded[MeterUser].usage, MeterUsageType, now)
              THEN "allowed" ELSE "denied"]
        /\ UNCHANGED <<now, transactions, stripe_sessions, ret>>

\* the approved request has done its work and counts it
MeterIncrement(r) ==
    /\ requests[r] = "allowed"
    /\ settings' = Inc(settings, MeterUser, MeterField)
    /\ requests' = [requests EXCEPT ![r] = "counted"]
    /\ UNCHANGED <<now, transactions, stripe_sessions, ret>>

InitMeter ==
    /\ now = ClockStart
    /\ \E count \in 0..MeterLimit :
          settings = [u \in {MeterUser} |->
              [subscription |-> get_default_subscription,
               usage |-> ApplySet(get_default_usage(ClockStart),
                            [f \in {MeterField} |-> count])]]
    /\ transactions = <<>>
    /\ stripe_sessions = <<>>
    /\ ret = NoResponse
    /\ \E k \in 1..MaxRequests : requests = [r \in 1..k |-> "waiting"]

NextMeter ==
    \E r \in DOMAIN requests :
        \/ MeterCheck(r)
        \/ MeterIncrement(r)

SpecMeter == InitMeter /\ [][NextMeter]_vars

\* C23: check_usage_limit and increment_usage are separate store
\* operations, so with k concurrent metered requests of one tenant at a
\* finite limit L the counter can pass L but never L + k - 1, and with a
\* single request it never passes L.
C23_OvershootBounded ==
    LET k       == Len(requests)
        counter == Get(settings[MeterUser].usage, MeterField, 0)
    IN  /\ counter <= MeterLimit + k - 1
        /\ k = 1 => counter <= MeterLimit

\* several requests, all approved before any of them counted, have taken
\* the counter to L + k - 1
C23_Witness ==
    LET k == Len(requests)
    IN  /\ k > 1
        /\ \A r \in 1..k : requests[r] = "counted"
        /\ settings[MeterUser].usage[MeterField] = MeterLimit + k - 1

----------------------------------------------------------------------------
(* Failures of the billing transport: the provider refusing the call that  *)
(* cancel and reactivate make, and a webhook delivery that does not verify *)
(* or parse.  The tenant starts in any of the states of TenantSettings.    *)

WebhookInvalid == stripe_webhook(InvalidDelivery)

InitTransport ==
    /\ now \in ClockReadings
    /\ \E u \in Users, plan \in CheckoutPlans, s \in Sessions :
          /\ stripe_sessions = Insert(<<>>, s, PaidSession(u, plan, s))
          /\ transactions \in StoredTransactions(u, plan, s, ClockStart)
          /\ settings \in TenantSettings(u, plan, s, ClockStart)
    /\ ret = NoResponse
    /\ requests = <<>>

NextTransport ==
    \/ \E u \in Users, modified \in BOOLEAN : cancel_subscription(u, modified)
    \/ \E u \in Users, modified \in BOOLEAN : reactivate_subscription(u, modified)
    \/ WebhookInvalid

SpecTransport == InitTransport /\ [][NextTransport]_vars

\* the tenant has a provider subscription for the handler to modify
HasProviderSubscription(u) ==
    /\ u \in DOMAIN settings
    /\ settings[u].subscription.stripe_subscription_id # None

\* C25: a failure of the billing transport changes no entitlement state: when
\* the provider call inside cancel or reactivate fails, or a webhook does
\* not verify or parse, an error is returned and the stored subscriptions
\* and usage are exactly what they were.
C25_TransportFailureChangesNothing ==
    [][/\ \A u \in Users :
            /\ ( /\ HasProviderSubscription(u)
                 /\ settings[u].subscription.tier # "free"
                 /\ cancel_subscription(u, FALSE) ) =>
                    /\ ret' = HttpResponse(500)
                    /\ UNCHANGED <<settings, transactions>>
            /\ ( /\ HasProviderSubscription(u)
                 /\ settings[u].subscription.cancel_at_period_end
                 /\ reactivate_subscription(u, FALSE) ) =>
                    /\ ret' = HttpResponse(500)
                    /\ UNCHANGED <<settings, transactions>>
       /\ WebhookInvalid =>
            /\ ret' = HttpResponse(400)
            /\ UNCHANGED <<settings, transactions>>]_vars

\* a paying tenant whose cancel request the provider refused is still
\* subscribed and not set to cancel
C25_Witness ==
    /\ ret = HttpResponse(500)
    /\ \E u \in DOMAIN settings :
          LET sub == settings[u].subscription
          IN  /\ sub.tier # "free"
              /\ sub.status = "active"
              /\ sub.stripe_subscription_id # None
              /\ ~ sub.cancel_at_period_end
              /\ sub.cancelled_at = None

----------------------------------------------------------------------------
(* The usage read around the end of the usage period.  The stored record   *)
(* was made at ClockStart, so its window ends with that month; the clock   *)
(* reading of the read and the counters of the record are the inputs.      *)

ReadPeriodEnd == EndOfMonth(ClockStart)

ReadNowInputs ==
    {ReadPeriodEnd - Days(2), ReadPeriodEnd - 1, ReadPeriodEnd,
     ReadPeriodEnd + 1, ReadPeriodEnd + Days(40)}

\* a record with the key dropped, as documents written before the key
\* existed are
Without(d, key) == [k \in DOMAIN d \ {key} |-> d[k]]

ReadUsageInputs ==
    LET counted ==
            {ApplySet(get_default_usage(ClockStart),
                [posts_created |-> posts, ai_generations |-> generations,
                 lifetime_posts |-> lifetime]) :
              posts \in 0..2, generations \in 0..1, lifetime \in {0, 3}}
    IN  counted \cup {Without(usage, "period_end") : usage \in counted}

InitRead ==
    /\ now \in ReadNowInputs
    /\ \E usage \in ReadUsageInputs :
          settings = [u \in Users |->
              [subscription |-> get_default_subscription, usage |-> usage]]
    /\ transactions = <<>>
    /\ stripe_sessions = <<>>
    /\ ret = NoResponse
    /\ requests = <<>>

NextRead == \E u \in Users : get_usage(u)

SpecRead == InitRead /\ [][NextRead]_vars

\* C26: the usage read finds the monthly window expired exactly when
\* now >= period_end, and also when period_end is missing; an expired read
\* stores a reset record whose monthly counters are 0 and whose window has
\* period_start <= now < period_end; a read with now < period_end leaves the
\* stored usage as it is.
C26_LazyExpiryOnRead ==
    [][\A u \in Users :
          (u \in DOMAIN settings /\ get_usage(u)) =>
            LET usage      == settings[u].usage
                period_end == Get(usage, "period_end", None)
                expired    == \/ period_end = None
                              \/ now >= fromisoformat(period_end)
                stored     == settings'[u].usage
            IN  IF expired
                THEN /\ \A f \in MonthlyCounters : stored[f] = 0
                     /\ fromisoformat(stored.period_start) <= now
                     /\ now < fromisoformat(stored.period_end)
                ELSE stored = usage]_vars

\* a read at the very second the old window ended has stored a reset record
\* that keeps the lifetime count
C26_Witness ==
    /\ ret = HttpResponse(200)
    /\ now = ReadPeriodEnd
    /\ \E u \in DOMAIN settings :
          LET usage == settings[u].usage
          IN  /\ usage.last_reset = isoformat(now)
              /\ fromisoformat(usage.period_start) = now
              /\ now < fromisoformat(usage.period_end)
              /\ usage.posts_created = 0
              /\ usage.lifetime_posts = 3

----------------------------------------------------------------------------
(* Claims about the two paths that apply a checkout (checked under Spec)   *)

\* C27: for one checkout session the activation is applied at most once
\* across the checkout.session.completed webhook and the checkout-status
\* poll: once the transaction is completed, no later delivery or poll
\* rewrites the subscription's period bounds or resets usage.
C27_ActivationAppliedOnce ==
    [][\A s \in Sessions, u \in Users :
          (/\ Billed(s, u)
           /\ transactions[s].status = "completed"
           /\ WebhookCheckoutCompleted(s) \/ get_checkout_status(s, u))
          => /\ settings'[u].subscription.current_period_start
                   = settings[u].subscription.current_period_start
             /\ settings'[u].subscription.current_period_end
                   = settings[u].subscription.current_period_end
             /\ settings'[u].usage = settings[u].usage]_vars

\* C28: whenever the transaction of a tenant's checkout session becomes
\* completed, the tenant's stored subscription carries the purchased tier
\* with status active, also when the tenant had no settings document yet.
C28_CompletedMeansActivated ==
    [][\A s \in DOMAIN transactions :
          (/\ transactions[s].status # "completed"
           /\ transactions'[s].status = "completed")
          => LET u == transactions[s].user_id
             IN  /\ u \in DOMAIN settings'
                 /\ settings'[u].subscription.tier = transactions[s].tier
                 /\ settings'[u].subscription.status = "active"]_vars

\* C29: the grace period is a fixed 48-hour window: an invoice.payment_failed
\* delivered to a tenant that is already past_due does not move
\* grace_period_ends later.
C29_GraceWindowFixed ==
    [][\A s \in Sessions, u \in Users :
          (/\ WebhookPaymentFailed(s)
           /\ Billed(s, u)
           /\ settings[u].subscription.status = "past_due"
           /\ settings[u].subscription.grace_period_ends # None)
          => fromisoformat(settings'[u].subscription.grace_period_ends)
                <= fromisoformat(settings[u].subscription.grace_period_ends)]_vars

----------------------------------------------------------------------------
(* The checkout-status poll with two tenants.  Session s was opened by     *)
(* SessionOwner; either tenant may poll it.  The provider's view of the    *)
(* session, the stored transaction and the owner's settings are inputs.    *)

SessionOwner == "user_1"

Pollers == {"user_1", "user_2"}

\* the session as create_checkout leaves it at the provider
OpenSession(u, plan, s) ==
    [session_id |-> s, payment_status |-> "unpaid", status |-> "open",
     customer |-> None, subscription |-> None,
     metadata |-> CheckoutMetadata(u, plan)]

\* the settings collection holding the documents of both
BothTenants(own, other) ==
    [u \in DOMAIN own \cup DOMAIN other |->
        IF u \in DOMAIN own THEN own[u] ELSE other[u]]

InitPoll ==
    /\ now \in ClockReadings
    /\ \E plan \in CheckoutPlans, s \in Sessions :
          LET paid    == Insert(<<>>, s, PaidSession(SessionOwner, plan, s))
              unpaid  == Insert(<<>>, s, OpenSession(SessionOwner, plan, s))
              pending == Insert(<<>>, s,
                            [user_id |-> SessionOwner, session_id |-> s,
                             tier |-> plan[1], billing_cycle |-> plan[2],
                             currency |-> plan[3], status |-> "pending",
                             created_at |-> isoformat(ClockStart)])
              others  == {<<>>, get_user_settings(<<>>, "user_2", ClockStart)}
          IN  \/ /\ stripe_sessions = paid
                 /\ transactions \in
                       {<<>>} \cup StoredTransactions(SessionOwner, plan, s, ClockStart)
                 /\ \E own \in TenantSettings(SessionOwner, plan, s, ClockStart),
                       other \in others : settings = BothTenants(own, other)
              \/ /\ stripe_sessions = unpaid
                 /\ transactions \in {<<>>, pending}
                 /\ \E own \in {<<>>, get_user_settings(<<>>, SessionOwner, ClockStart)},
                       other \in others : settings = BothTenants(own, other)
    /\ ret = NoResponse
    /\ requests = <<>>

NextPoll == \E s \in Sessions, u \in Pollers : get_checkout_status(s, u)

SpecPoll == InitPoll /\ [][NextPoll]_vars

\* C30: the poll changes state only for the session's owner: a poll by a
\* tenant for a session whose transaction belongs to another tenant, or has
\* no transaction, or is not paid, changes no subscription, no usage and no
\* transaction.
C30_PollOnlyActsForOwner ==
    [][\A s \in Sessions, u \in Pollers :
          (/\ get_checkout_status(s, u)
           /\ \/ s \notin DOMAIN transactions
              \/ transactions[s].user_id # u
              \/ stripe_sessions[s].payment_status # "paid")
          => UNCHANGED <<settings, transactions>>]_vars

\* a paid session of user_1 whose transaction is still pending has been
\* polled (only user_2 can have polled it) and user_2 is still on the free
\* defaults
C30_Witness ==
    /\ ret = HttpResponse(200)
    /\ \E s \in DOMAIN transactions :
          /\ stripe_sessions[s].payment_status = "paid"
          /\ transactions[s].user_id = SessionOwner
          /\ transactions[s].status = "pending"
    /\ "user_2" \in DOMAIN settings
    /\ settings["user_2"].subscription = get_default_subscription
    /\ SessionOwner \in DOMAIN settings
    /\ settings[SessionOwner].subscription.tier = "free"

====
